---- MODULE Spec2Model ----
(***************************************************************************)
(* State-machine model of the DMarket trading bot (suvorovjr/dmarket_api): *)
(* the pricing functions, the chunked bulk calls of the gateway, the       *)
(* ledger (SkinOffer table) with the offer reconciler, and the target      *)
(* reconciler.                                                             *)
(*                                                                         *)
(* Money.  offer_price works on float USD amounts; they are modelled as    *)
(* integers counting 1/100 of a cent, so that 0.01 USD is Cent units and   *)
(* every product  cents * (100 + percent)  is exact.  order_price works on *)
(* integer cents (SkinOrder.bestOrder, minPrice, maxPrice are ints).       *)
(***************************************************************************)
EXTENDS Integers, Sequences, FiniteSets, TLC

\* None: the value of a nullable column or attribute that is not set.
NULL == -1

\* 0.01 USD, the literal of offers.py:165, in model units (1/100 cent).
Cent == 100

\* x dollars in model units.
USD(x) == x * 100 * Cent

\* Largest small amount enumerated around zero.
MaxVal == 8

\* Per-call item caps of the two bulk endpoints.
DeleteCap == 150
AggCap == 100

\* Lists of k*cap - 1, k*cap and k*cap + 1 items are tried for k up to MaxChunks.
MaxChunks == 3

\* Ledger bounds: asset ids 1..MaxAssets, at most MaxRows rows, at most
\* MaxTrades closed trades per response, at most MaxPasses handler runs.
MaxAssets == 2
MaxRows == 2
MaxTrades == 2
MaxPasses == 3

\* SkinOffer.fee default and the fallback of add_to_sell.
DefaultFee == 7
\* A custom per-item fee percentage, as found in fees.dmarket.sell.custom.
CustomFee == 2

\* SellParams.MAX_PERCENT and SellParams.MIN_PERCENT (config values).
MAX_PERCENT == 20
MIN_PERCENT == 5

\* BuyParams.PROFIT_PERCENT, MAX_THRESHOLD and MIN_THRESHOLD (config values).
PROFIT_PERCENT == 10
MAX_THRESHOLD == 10
MIN_THRESHOLD == 10

\* Target reconciler bounds: at most MaxTargets active and MaxInactive
\* inactive targets at the remote when a pass starts.
MaxTargets == 3
MaxInactive == 1

\* The fixed sleep of validate_response when the quota header is missing.
GraceSleep == 5

\* get_money_loop is followed for at most MaxBalanceRequests balance requests.
MaxBalanceRequests == 2

\* dmarketapi.py:191: asyncio.sleep(60*5).
SleepSeconds == 300

\* skinbase.py:55: get_items pages while total_offers < 1000.
OffersWanted == 1000

\* dmarketapi.py:249: the default limit of market_offers, the page size.
PageLimit == 100

\* The market holds up to MaxMarket half pages of offers in the price range.
MaxMarket == 30

\* The page requests of get_items are counted modulo RequestWindow.
RequestWindow == 3

VARIABLES
  \* ---- pricing functions ------------------------------------------------
  pr_max,      \* argument max_p
  pr_min,      \* argument min_p
  pr_best,     \* argument best
  pr_fn,       \* which function has been applied: "none", "offer_price", "order_price"
  pr_ret,      \* its return value (NULL before the call)
  \* ---- chunked bulk calls (delete_target, agregated_prices) -------------
  ch_kind,     \* "delete_target" or "agregated_prices"
  ch_input,    \* the list the outermost invocation was called with
  ch_stack,    \* argument lists of the active invocations, innermost last
  ch_pc,       \* "descend": innermost invocation is at its length test;
               \* "return": its recursive call has returned; "done"
  ch_ret,      \* value returned by the last finished invocation
  ch_calls,    \* bodies of the outbound calls, in the order issued
  \* ---- ledger (SkinOffer table) and offer reconciler --------------------
  ledger,      \* the rows of the SkinOffer table, in insertion (id) order
  l_time,      \* number of handler invocations so far; the value of now()
  l_call,      \* what the last handler did towards the remote: op, the body
               \* of its create/edit request, the confirmed Result
  \* ---- target reconciler (Orders.update_orders) and the remote targets ---
  r_targets,   \* the user's active targets at the remote, in the order fetched
  r_inactive,  \* the user's inactive targets at the remote
  r_nextId,    \* the TargetID the remote gives to the next created target
  balance,     \* DMarketApi.balance, the cached balance
  o_pc,        \* position of update_orders: "idle", "new", "good", "done"
  o_skins,     \* local skins: the candidates of this pass
  o_targets,   \* local targets.Items: the active targets fetched by this pass
  o_new,       \* local new (of sort_targets)
  o_good,      \* local good (of sort_targets)
  o_i,         \* index of the current element of the outer loop
  o_j,         \* index of the current element of the inner loop over skins
  o_log,       \* the outbound calls of this pass, in the order issued
  \* ---- two reconciliation passes over an unchanged environment -----------
  rc_pass,     \* the number of the pass that is running
  rc_stage,    \* the handler of the pass that runs next
  rc_in,       \* what the environment answers, the same in both passes
  \* ---- gateway (api_call, validate_response) and get_money_loop ----------
  g_req,       \* the last gateway call: method and path
  g_sent,      \* the number of HTTP requests issued for it
  g_resp,      \* the response it received: status, headers, body
  g_sleeps,    \* the asyncio.sleep durations of the call, in order
  g_out,       \* its outcome: returned body or raised exception
  m_pc,        \* get_money_loop: "loop" (at get_balance), "sleep" or "returned"
  m_requests,  \* the number of balance requests get_money_loop has issued
  m_last,      \* the exception its last iteration caught ("" if none)
  m_sleeps,    \* its own sleeps since its last balance request, in seconds
  \* ---- SkinBase.get_items ------------------------------------------------
  sb_market,   \* the number of offers the market holds in the price range
  sb_pc,       \* "idle", "paging" (in the while loop) or "done" (returned)
  sb_cursor,   \* the cursor: the number of offers the remote has served
  sb_total,    \* total_offers
  sb_len,      \* len(market_offers.objects)
  sb_requests  \* the number of market_offers requests, modulo RequestWindow

pr_vars == <<pr_max, pr_min, pr_best, pr_fn, pr_ret>>
ch_vars == <<ch_kind, ch_input, ch_stack, ch_pc, ch_ret, ch_calls>>

l_vars == <<ledger, l_time, l_call>>

o_vars == <<r_targets, r_inactive, r_nextId, balance, o_pc, o_skins, o_targets,
            o_new, o_good, o_i, o_j, o_log>>
rc_vars == <<rc_pass, rc_stage, rc_in>>

g_vars == <<g_req, g_sent, g_resp, g_sleeps, g_out, m_pc, m_requests, m_last, m_sleeps>>

sb_vars == <<sb_market, sb_pc, sb_cursor, sb_total, sb_len, sb_requests>>

vars == <<pr_vars, ch_vars, l_vars, o_vars, rc_vars, g_vars, sb_vars>>

----------------------------------------------------------------------------
(* Pricing engine                                                          *)

\* Offers.offer_price, offers.py:152-168.
offer_price(max_p, min_p, best) ==
  IF best < min_p THEN min_p
  ELSE IF min_p < best /\ best <= max_p THEN best - Cent
  ELSE max_p

\* A slip in the first comparison of order_price: >= for >.
order_price_ge(max_p, min_p, best) ==
  IF best >= max_p THEN max_p
  ELSE IF min_p < best /\ best <= max_p THEN best + 1
  ELSE min_p

\* Orders.order_price, orders.py:282-298.
order_price(max_p, min_p, best) ==
  IF best > max_p THEN max_p
  ELSE IF min_p < best /\ best <= max_p THEN best + 1
  ELSE min_p

\* Amounts the pricing functions are applied to: small amounts, the values of
\* the documented examples (5, 10, 15, 20, 25 as cents for order_price and as
\* dollars for offer_price) and amounts next to the 10-dollar floor, on and
\* between the 0.01 grid points.
PriceVals ==
  (0..MaxVal) \cup {5, 10, 15, 16, 20, 25}
  \cup {USD(5), USD(10) - 1, USD(10), USD(10) + 1, USD(10) + Cent - 1,
        USD(10) + Cent, USD(15) - Cent, USD(15), USD(20), USD(20) + Cent, USD(25)}

PriceInit ==
  /\ pr_max \in PriceVals
  /\ pr_min \in PriceVals
  /\ pr_best \in PriceVals
  /\ pr_fn = "none"
  /\ pr_ret = NULL

PriceIdle ==
  /\ pr_max = 0 /\ pr_min = 0 /\ pr_best = 0
  /\ pr_fn = "none"
  /\ pr_ret = NULL

CallOfferPrice ==
  /\ pr_fn = "none"
  /\ pr_fn' = "offer_price"
  /\ pr_ret' = offer_price(pr_max, pr_min, pr_best)
  /\ UNCHANGED <<pr_max, pr_min, pr_best>>

CallOrderPrice ==
  /\ pr_fn = "none"
  /\ pr_fn' = "order_price"
  /\ pr_ret' = order_price(pr_max, pr_min, pr_best)
  /\ UNCHANGED <<pr_max, pr_min, pr_best>>



----------------------------------------------------------------------------
(* Chunked bulk calls of the gateway                                       *)

Min(a, b) == IF a <= b THEN a ELSE b

\* l[:cap]
slice_to(l, cap) == SubSeq(l, 1, Min(cap, Len(l)))

\* An off-by-one slip in the slice handed to the recursive call: l[cap+1:].
slice_from_skip(l, cap) == SubSeq(l, cap + 2, Len(l))

\* l[cap:]
slice_from(l, cap) == SubSeq(l, cap + 1, Len(l))

\* The cap each endpoint applies: dmarketapi.py:396-400 and :292-296.
Cap(kind) == IF kind = "delete_target" THEN DeleteCap ELSE AggCap

\* The remote answers a bulk call with one result per submitted item, in
\* submission order (response['Result'], response['AggregatedTitles']).
RemoteResult(body) == [k \in 1..Len(body) |-> [item |-> body[k]]]

ChunkSizes(cap) ==
  {0, cap - 1, cap, cap + 1, 10 * cap}
  \cup {k * cap + d : k \in 1..MaxChunks, d \in {-1, 0, 1}}

ChunkInit ==
  /\ ch_kind \in {"delete_target", "agregated_prices"}
  /\ \E n \in ChunkSizes(Cap(ch_kind)) : ch_input = [i \in 1..n |-> i]
  /\ ch_stack = <<ch_input>>
  /\ ch_pc = "descend"
  /\ ch_ret = <<>>
  /\ ch_calls = <<>>

ChunkIdle ==
  /\ ch_kind = "delete_target"
  /\ ch_input = <<>>
  /\ ch_stack = <<>>
  /\ ch_pc = "done"
  /\ ch_ret = <<>>
  /\ ch_calls = <<>>

ChunkTop == ch_stack[Len(ch_stack)]

\* `if len(targets) > 150: addiction_items = await self.delete_target(targets[150:])`
\* (and the same with names and 100): the invocation calls itself on the rest.
ChunkRecurse ==
  /\ ch_pc = "descend"
  /\ Len(ChunkTop) > Cap(ch_kind)
  /\ ch_stack' = Append(ch_stack, slice_from(ChunkTop, Cap(ch_kind)))
  /\ UNCHANGED <<ch_kind, ch_input, ch_pc, ch_ret, ch_calls>>

\* The invocation's own outbound call with the first cap items, and its
\* return of `response + addiction_items`.
ChunkApiCall ==
  /\ \/ ch_pc = "return"
     \/ ch_pc = "descend" /\ Len(ChunkTop) <= Cap(ch_kind)
  /\ LET addiction_items == IF ch_pc = "return" THEN ch_ret ELSE <<>>
         body == slice_to(ChunkTop, Cap(ch_kind))
     IN /\ ch_calls' = Append(ch_calls, body)
        /\ ch_ret' = RemoteResult(body) \o addiction_items
  /\ ch_stack' = SubSeq(ch_stack, 1, Len(ch_stack) - 1)
  /\ ch_pc' = IF Len(ch_stack) = 1 THEN "done" ELSE "return"
  /\ UNCHANGED <<ch_kind, ch_input>>

----------------------------------------------------------------------------
(* Ledger store and offer reconciler                                       *)

Assets == 1..MaxAssets

\* Title of the item with this asset id, as the remote reports it (items
\* 1, 3, .. carry title 2 and items 2, 4, .. title 1, so that sorting by title
\* is not the table order).
TitleOf(a) == IF a % 2 = 1 THEN 2 ELSE 1

\* The id the remote gives to an offer created or re-created at time t.
NewOfferID(t, a) == t * (MaxAssets + 1) + a

\* round(x, 2) on an amount in model units: the nearest multiple of Cent, a
\* tie going to the even cent.
round2(x) ==
  LET q == x \div Cent
      r == x % Cent
  IN IF 2 * r < Cent THEN q * Cent
     ELSE IF 2 * r > Cent THEN (q + 1) * Cent
     ELSE IF q % 2 = 0 THEN q * Cent ELSE (q + 1) * Cent

\* x * (1 + percent / 100 + fee / 100)
markup(x, percent, fee) == (x * (100 + percent + fee)) \div 100

\* x * (1 - fee / 100)
net_of_fee(x, fee) == (x * (100 - fee)) \div 100

\* SelectSkinOffer.create_skin, crud.py:100-117: a new row; fee takes the
\* column default.
create_skin(led, item) ==
  Append(led, [AssetID |-> item.AssetID, title |-> NULL,
               buyPrice |-> item.buyPrice, OfferID |-> NULL,
               sellTime |-> NULL, sellPrice |-> NULL, fee |-> DefaultFee])

\* A slip in select_not_sell: the WHERE clause is missing.
select_not_sell_all(led) == led

\* SelectSkinOffer.select_not_sell, crud.py:132-140.
select_not_sell(led) == SelectSeq(led, LAMBDA s : s.sellTime = NULL)

\* Index of the first row with this AssetID, 0 if there is none
\* (SkinOffer.get(SkinOffer.AssetID == ...), DoesNotExist).
FirstRow(led, a) ==
  IF \E i \in DOMAIN led : led[i].AssetID = a
  THEN CHOOSE i \in DOMAIN led :
         led[i].AssetID = a /\ \A k \in 1..(i - 1) : led[k].AssetID # a
  ELSE 0

\* SelectSkinOffer.update_offer_id, crud.py:177-195.
update_offer_id(led, skin) ==
  LET i == FirstRow(led, skin.AssetID)
  IN IF i = 0 THEN led
     ELSE [led EXCEPT ![i] = [@ EXCEPT !.OfferID = skin.OfferID,
                                       !.title = skin.title,
                                       !.fee = skin.fee,
                                       !.sellPrice = skin.sellPrice]]

\* Index of the first element of seq with this AssetID, 0 if none.
FirstMatch(seq, a) ==
  IF \E i \in DOMAIN seq : seq[i].AssetID = a
  THEN CHOOSE i \in DOMAIN seq :
         seq[i].AssetID = a /\ \A k \in 1..(i - 1) : seq[k].AssetID # a
  ELSE 0

\* Index of the last element of seq with this AssetID, 0 if none.
LastMatch(seq, a) ==
  IF \E i \in DOMAIN seq : seq[i].AssetID = a
  THEN CHOOSE i \in DOMAIN seq :
         seq[i].AssetID = a /\ \A k \in (i + 1)..Len(seq) : seq[k].AssetID # a
  ELSE 0

\* offers.py:68-71: one create_skin per closed trade whose AssetID is not in
\* buy_asset_ids, the list read once before the loop.
RECURSIVE create_bought(_, _, _, _)
create_bought(led, buy, buy_asset_ids, k) ==
  IF k > Len(buy) THEN led
  ELSE create_bought(IF buy[k].AssetID \notin buy_asset_ids
                     THEN create_skin(led, buy[k]) ELSE led,
                     buy, buy_asset_ids, k + 1)

\* offers.py:73-86: every unsold row takes the fields of the first listing of
\* `sell` with its AssetID; update_sold writes the rows back.
sold_sweep(led, sell) ==
  [n \in DOMAIN led |->
     LET s == led[n]
         m == FirstMatch(sell, s.AssetID)
     IN IF s.sellTime = NULL /\ m # 0
        THEN [s EXCEPT !.title = sell[m].title,
                       !.sellPrice = net_of_fee(sell[m].sellPrice, s.fee),
                       !.OfferID = sell[m].OfferID,
                       !.sellTime = sell[m].sellTime]
        ELSE s]

\* History.save_skins, offers.py:36-91.  trades: the Trades of the
\* closed-targets response; items: the Items of the user-offers responses of
\* all games; ok = FALSE: one of the requests raised, the handler re-raises
\* before it touches the table.
save_skins(trades, items, ok) ==
  /\ l_time' = l_time + 1
  /\ l_call' = [op |-> "save_skins", sent |-> FALSE, body |-> <<>>, Result |-> <<>>]
  /\ IF ok
     THEN LET buy == [k \in DOMAIN trades |->
                        [AssetID |-> trades[k].AssetID, buyPrice |-> trades[k].Price]]
              sell == [k \in DOMAIN items |->
                        [AssetID |-> items[k].AssetID, OfferID |-> items[k].OfferID,
                         sellPrice |-> items[k].Price, sellTime |-> l_time',
                         title |-> items[k].Title]]
              buy_asset_ids == {ledger[i].AssetID : i \in DOMAIN ledger}
              created == create_bought(ledger, buy, buy_asset_ids, 1)
          IN /\ Len(created) <= MaxRows
             /\ ledger' = sold_sweep(created, sell)
     ELSE ledger' = ledger

\* offers.py:124-129: the in-market inventory items as SellOffer objects.
invent_of(inv_skins) ==
  LET inm == SelectSeq(inv_skins, LAMBDA i : i.inMarket)
  IN [k \in DOMAIN inm |->
        [AssetID |-> inm[k].itemId, title |-> inm[k].title, fee |-> inm[k].fee,
         sellPrice |-> NULL, OfferID |-> NULL]]

\* offers.py:131-135: the price of an inventory item is set from every
\* matching unsold row in turn, so the last matching row decides.
priced(invent, skins) ==
  [k \in DOMAIN invent |->
     LET j == LastMatch(skins, invent[k].AssetID)
     IN IF j = 0 THEN invent[k]
        ELSE [invent[k] EXCEPT
                !.sellPrice = markup(skins[j].buyPrice, MAX_PERCENT, invent[k].fee)]]

\* offers.py:136-140: round(None, 2) raises TypeError and the item is skipped.
create_offers_of(invent) ==
  LET have == SelectSeq(invent, LAMBDA i : i.sellPrice # NULL)
  IN [k \in DOMAIN have |->
        [AssetID |-> have[k].AssetID, Amount |-> round2(have[k].sellPrice)]]

\* offers.py:143-149 and :197-203: for every confirmation, the matching
\* objects of `objs` take its price and offer id and are written with
\* update_offer_id.
\* A slip in the write-back: every submitted object is written, confirmed or
\* not.
RECURSIVE record_result_all(_, _, _, _)
record_result_all(led, Result, objs, k) ==
  IF k > Len(objs) THEN led
  ELSE record_result_all(update_offer_id(led, objs[k]), Result, objs, k + 1)

RECURSIVE record_result(_, _, _, _)
record_result(led, Result, objs, k) ==
  IF k > Len(Result) THEN led
  ELSE LET j == FirstMatch(objs, Result[k].AssetID)
       IN record_result(
            IF j = 0 THEN led
            ELSE update_offer_id(led, [objs[j] EXCEPT !.sellPrice = Result[k].Amount,
                                                     !.OfferID = Result[k].OfferID]),
            Result, objs, k + 1)

\* The Result of a create or edit response: the confirmed entries of the
\* request, in request order, each with the offer id the remote assigned.
ResultOf(body, confirmed, t) ==
  LET idx == SelectSeq([k \in DOMAIN body |-> k], LAMBDA k : k \in confirmed)
  IN [n \in DOMAIN idx |->
        [AssetID |-> body[idx[n]].AssetID, Amount |-> body[idx[n]].Amount,
         OfferID |-> NewOfferID(t, body[idx[n]].AssetID)]]

\* Offers.add_to_sell, offers.py:113-150.  inv_skins: the objects of the
\* user-items responses; confirmed: the positions of the request the remote
\* confirms; ok = FALSE: the create request raised.
add_to_sell(inv_skins, confirmed, ok) ==
  /\ l_time' = l_time + 1
  /\ LET skins == select_not_sell(ledger)
         invent == priced(invent_of(inv_skins), skins)
         create_offers == create_offers_of(invent)
         Result == IF ok THEN ResultOf(create_offers, confirmed, l_time') ELSE <<>>
     IN /\ confirmed \subseteq DOMAIN create_offers
        /\ ~ok => confirmed = {}
        /\ l_call' = [op |-> "add_to_sell", sent |-> TRUE,
                      body |-> create_offers, Result |-> Result]
        /\ ledger' = record_result(ledger, Result, invent, 1)

\* Stable insertion of x into a list sorted by title.
RECURSIVE insert_by_title(_, _)
insert_by_title(sorted, x) ==
  IF sorted = <<>> THEN <<x>>
  ELSE IF x.title < sorted[Len(sorted)].title
       THEN Append(insert_by_title(SubSeq(sorted, 1, Len(sorted) - 1), x),
                   sorted[Len(sorted)])
       ELSE Append(sorted, x)

\* sorted(seq, key=lambda x: x.title)
RECURSIVE sorted_by_title(_)
sorted_by_title(seq) ==
  IF seq = <<>> THEN <<>>
  ELSE insert_by_title(sorted_by_title(SubSeq(seq, 1, Len(seq) - 1)), seq[Len(seq)])

\* offers.py:175-176.
on_sell_of(led) ==
  sorted_by_title(SelectSeq(select_not_sell(led), LAMBDA i : i.OfferID # NULL))

\* offers.py:185-194 for one listed entry: what it appends to
\* items_to_update (nothing when the price is kept).
edit_of(i, best_price) ==
  IF i.sellPrice # best_price
  THEN LET max_sell_price == markup(i.buyPrice, MAX_PERCENT, i.fee)
           min_sell_price == markup(i.buyPrice, MIN_PERCENT, i.fee)
           price == offer_price(max_sell_price, min_sell_price, best_price)
       IN IF round2(price) # round2(i.sellPrice)
          THEN <<[AssetID |-> i.AssetID, OfferID |-> i.OfferID, Amount |-> round2(price)]>>
          ELSE <<>>
  ELSE <<>>

\* offers.py:180-194: the entries of the edit request, in on_sell order.
RECURSIVE items_to_update_of(_, _)
items_to_update_of(on_sell, best) ==
  IF on_sell = <<>> THEN <<>>
  ELSE edit_of(Head(on_sell), best[Head(on_sell).AssetID])
       \o items_to_update_of(Tail(on_sell), best)

\* Offers.update_offers, offers.py:170-204.  best: the best listed price the
\* details request returns for each asset; confirmed: the positions of the
\* edit request the remote confirms; fail = "details": a details request
\* raised (or returned no objects), so the handler stops before the edit
\* request; fail = "edit": the edit request raised.
update_offers(best, confirmed, fail) ==
  /\ l_time' = l_time + 1
  /\ LET on_sell == on_sell_of(ledger)
         items_to_update == IF fail = "details" THEN <<>>
                            ELSE items_to_update_of(on_sell, best)
         Result == IF fail = "no" THEN ResultOf(items_to_update, confirmed, l_time')
                   ELSE <<>>
     IN /\ confirmed \subseteq DOMAIN items_to_update
        /\ fail # "no" => confirmed = {}
        /\ fail = "details" => on_sell # <<>>
        /\ l_call' = IF fail = "details"
                     THEN [op |-> "update_offers", sent |-> FALSE,
                           body |-> <<>>, Result |-> <<>>]
                     ELSE [op |-> "update_offers", sent |-> TRUE,
                           body |-> items_to_update, Result |-> Result]
        /\ ledger' = record_result(ledger, Result, on_sell, 1)

\* offers.py:143-149: add_to_sell stops (the process dies, or a save raises)
\* when it has written `written` of the confirmations; every
\* update_offer_id before that has been saved on its own.
add_to_sell_crash(inv_skins, confirmed, written) ==
  /\ l_time' = l_time + 1
  /\ LET skins == select_not_sell(ledger)
         invent == priced(invent_of(inv_skins), skins)
         create_offers == create_offers_of(invent)
         Result == ResultOf(create_offers, confirmed, l_time')
     IN /\ confirmed \subseteq DOMAIN create_offers
        /\ written \in 0..(Len(Result) - 1)
        /\ l_call' = [op |-> "add_to_sell", sent |-> TRUE,
                      body |-> create_offers, Result |-> Result]
        /\ ledger' = record_result(ledger, SubSeq(Result, 1, written), invent, 1)

\* offers.py:197-203: the same for update_offers.
update_offers_crash(best, confirmed, written) ==
  /\ l_time' = l_time + 1
  /\ LET on_sell == on_sell_of(ledger)
         items_to_update == items_to_update_of(on_sell, best)
         Result == ResultOf(items_to_update, confirmed, l_time')
     IN /\ confirmed \subseteq DOMAIN items_to_update
        /\ written \in 0..(Len(Result) - 1)
        /\ l_call' = [op |-> "update_offers", sent |-> TRUE,
                      body |-> items_to_update, Result |-> Result]
        /\ ledger' = record_result(ledger, SubSeq(Result, 1, written), on_sell, 1)

\* ---- what the remote may answer -----------------------------------------

BuyPrices == {USD(10)}
ListedPrices == {USD(12)}
BestPrices == {USD(9), USD(12), USD(20)}

RECURSIVE SeqsUpTo(_, _)
SeqsUpTo(S, n) ==
  IF n = 0 THEN {<<>>}
  ELSE LET shorter == SeqsUpTo(S, n - 1)
       IN shorter \cup {Append(q, x) : q \in {w \in shorter : Len(w) = n - 1}, x \in S}

\* Closed trades: any list of at most MaxTrades fills, the same asset
\* possibly more than once.
TradesResponses == SeqsUpTo([AssetID : Assets, Price : BuyPrices], MaxTrades)

\* The elements of a set of asset ids as a list in ascending order.
RECURSIVE AscList(_)
AscList(S) ==
  IF S = {} THEN <<>>
  ELSE LET m == CHOOSE x \in S : \A y \in S : x <= y
       IN <<m>> \o AscList(S \ {m})

\* Listings returned by user_offers: one per asset of some set of assets.
OffersResponses ==
  {[k \in 1..Cardinality(S) |->
      [AssetID |-> AscList(S)[k], OfferID |-> AscList(S)[k],
       Price |-> p, Title |-> TitleOf(AscList(S)[k])]] :
   S \in SUBSET Assets, p \in ListedPrices}

\* The sell fee the remote reports for an item: items 2, 4, .. carry a custom
\* percentage, the others none (offers.py:125-127 then takes 7).
FeeOf(a) == IF a % 2 = 0 THEN CustomFee ELSE DefaultFee

\* Inventories returned by user_items: one object per asset of some set, each
\* in the market or not.
InventoryResponses ==
  UNION {{[k \in 1..Cardinality(S) |->
             [itemId |-> AscList(S)[k], title |-> TitleOf(AscList(S)[k]),
              fee |-> FeeOf(AscList(S)[k]),
              inMarket |-> AscList(S)[k] \in M]] : M \in SUBSET S} :
         S \in SUBSET Assets}

LedgerInit ==
  /\ ledger = <<>>
  /\ l_time = 0
  /\ l_call = [op |-> "none", sent |-> FALSE, body |-> <<>>, Result |-> <<>>]

LedgerIdle == LedgerInit

\* The requests of save_skins succeed, or one of them raises.
SaveSkins ==
  /\ l_time < MaxPasses
  /\ \/ \E trades \in TradesResponses, items \in OffersResponses :
           save_skins(trades, items, TRUE)
     \/ save_skins(<<>>, <<>>, FALSE)

\* The create request succeeds and the remote confirms some of its entries,
\* or it raises.
AddToSell ==
  /\ l_time < MaxPasses
  /\ \E inv_skins \in InventoryResponses :
        LET body == create_offers_of(priced(invent_of(inv_skins), select_not_sell(ledger)))
        IN \/ \E confirmed \in SUBSET DOMAIN body : add_to_sell(inv_skins, confirmed, TRUE)
           \/ add_to_sell(inv_skins, {}, FALSE)

\* The assets update_offers asks the details of.
OnSellAssets == {on_sell_of(ledger)[k].AssetID : k \in DOMAIN on_sell_of(ledger)}

\* Every request succeeds and the remote confirms some entries of the edit
\* request, or the edit request raises, or a details request fails.
UpdateOffers ==
  /\ l_time < MaxPasses
  /\ \/ \E best \in [OnSellAssets -> BestPrices] :
           LET body == items_to_update_of(on_sell_of(ledger), best)
           IN \/ \E confirmed \in SUBSET DOMAIN body : update_offers(best, confirmed, "no")
              \/ update_offers(best, {}, "edit")
     \/ update_offers([a \in OnSellAssets |-> USD(9)], {}, "details")

\* A pass that stops in the middle of its write-back.
AddToSellCrash ==
  /\ l_time < MaxPasses
  /\ \E inv_skins \in InventoryResponses :
        LET body == create_offers_of(priced(invent_of(inv_skins), select_not_sell(ledger)))
        IN \E confirmed \in SUBSET DOMAIN body, written \in 0..MaxRows :
              add_to_sell_crash(inv_skins, confirmed, written)

UpdateOffersCrash ==
  /\ l_time < MaxPasses
  /\ \E best \in [OnSellAssets -> BestPrices] :
        LET body == items_to_update_of(on_sell_of(ledger), best)
        IN \E confirmed \in SUBSET DOMAIN body, written \in 0..MaxRows :
              update_offers_crash(best, confirmed, written)

----------------------------------------------------------------------------
(* Target reconciler                                                       *)

Titles == {"A", "B"}

\* orders.py:257-259: the band skins_for_buy attaches to a candidate
\* (int() truncates).
SkinOrder(title, bestOrder) ==
  [title |-> title, bestOrder |-> bestOrder,
   maxPrice |-> (bestOrder * (100 + MAX_THRESHOLD)) \div 100,
   minPrice |-> (bestOrder * (100 - MIN_THRESHOLD)) \div 100]

\* An entry of o_log.  path: "batch", "new" or "good"; ids: the TargetIDs of
\* a delete request; seen: the offer prices or the listing titles a probe got;
\* ret: the outcome of a probe.
Call(op, path, title, price, ids, seen, ret) ==
  [op |-> op, path |-> path, title |-> title, price |-> price, ids |-> ids,
   seen |-> seen, ret |-> ret]

TitlesOf(seq) == {seq[k].Title : k \in DOMAIN seq}

\* Orders.sort_targets, orders.py:300-312.
sort_targets(skins, targets) ==
  LET skin_titles == {skins[k].title : k \in DOMAIN skins}
  IN [new |-> SelectSeq(skins, LAMBDA i : i.title \notin TitlesOf(targets)),
      good |-> SelectSeq(targets, LAMBDA i : i.Title \in skin_titles),
      bad |-> SelectSeq(targets, LAMBDA i : i.Title \notin skin_titles)]

\* itertools.groupby(items, key=Title): the runs of neighbouring items with
\* equal Title, as lists (orders.py:381).
RECURSIVE groupby_title(_)
groupby_title(items) ==
  IF items = <<>> THEN <<>>
  ELSE LET rest == groupby_title(SubSeq(items, 1, Len(items) - 1))
           x == items[Len(items)]
       IN IF rest # <<>> /\ rest[Len(rest)][1].Title = x.Title
          THEN [rest EXCEPT ![Len(rest)] = Append(@, x)]
          ELSE Append(rest, <<x>>)

\* orders.py:384-386: the elements after the first of every group of more
\* than one.
RECURSIVE duplicates_of(_)
duplicates_of(name_group) ==
  IF name_group = <<>> THEN <<>>
  ELSE (IF Len(Head(name_group)) > 1 THEN Tail(Head(name_group)) ELSE <<>>)
       \o duplicates_of(Tail(name_group))

\* DMarketApi.delete_target, dmarketapi.py:387-406: the bodies of its
\* outbound calls, in the order issued (the rest of the list first).
RECURSIVE delete_target_calls(_)
delete_target_calls(targets) ==
  (IF Len(targets) > DeleteCap
   THEN delete_target_calls(slice_from(targets, DeleteCap)) ELSE <<>>)
  \o <<[k \in DOMAIN slice_to(targets, DeleteCap) |-> targets[k].TargetID]>>

\* The o_log entries of one delete_target(targets).
delete_log(targets, path) ==
  LET bodies == delete_target_calls(targets)
  IN [k \in DOMAIN bodies |->
        Call("delete_target", path, "", 0, bodies[k], <<>>, TRUE)]

\* The remote drops the targets it is asked to delete.
remote_delete(remote, targets) ==
  SelectSeq(remote, LAMBDA t : t.TargetID \notin {targets[k].TargetID : k \in DOMAIN targets})

\* A slip in check_offers: any live offer counts as profitable.
check_offers_any(item, offer_prices) == offer_prices # <<>>

\* Orders.check_offers, orders.py:339-352, on the prices of the offers the
\* remote returned (sorting them does not change the outcome of any()).
check_offers(item, offer_prices) ==
  \E k \in DOMAIN offer_prices :
     item.bestOrder * (100 + PROFIT_PERCENT) <= offer_prices[k] * 100

\* orders.py:322: a listing came back and its title is the candidate's.
listing_matches(item, listing) == listing # <<>> /\ listing[1] = item.title

\* Where update_orders continues after the element (i, j) of its loops.
after_new(i, new, good) ==
  IF i < Len(new) THEN [pc |-> "new", i |-> i + 1, j |-> 1]
  ELSE IF good # <<>> THEN [pc |-> "good", i |-> 1, j |-> 1]
  ELSE [pc |-> "done", i |-> 1, j |-> 1]

after_good(i, j, good, skins) ==
  IF j < Len(skins) THEN [pc |-> "good", i |-> i, j |-> j + 1]
  ELSE IF i < Len(good) THEN [pc |-> "good", i |-> i + 1, j |-> 1]
  ELSE [pc |-> "done", i |-> 1, j |-> 1]

\* orders.py:378-387: update_orders up to its batch delete.  skins: the
\* candidates skins_for_buy returns.
update_orders_fetch(skins) ==
  /\ o_pc = "idle"
  /\ LET st == sort_targets(skins, r_targets)
         name_group == groupby_title(r_targets)
         bad == st.bad \o duplicates_of(name_group)
         next == after_new(0, st.new, st.good)
     IN /\ o_skins' = skins
        /\ o_targets' = r_targets
        /\ o_new' = st.new
        /\ o_good' = st.good
        /\ o_log' = delete_log(bad \o r_inactive, "batch")
        /\ r_targets' = remote_delete(r_targets, bad \o r_inactive)
        /\ r_inactive' = remote_delete(r_inactive, bad \o r_inactive)
        /\ o_pc' = next.pc
        /\ o_i' = next.i
        /\ o_j' = next.j
  /\ UNCHANGED <<r_nextId, balance>>

\* Orders.create_order, orders.py:314-337: the o_log entries it adds and the
\* target the remote then holds, for the listing market_offers returned.
create_order_log(item, listing, path) ==
  <<Call("market_offers", path, item.title, item.bestOrder, <<>>, listing,
         listing_matches(item, listing))>>
  \o (IF listing_matches(item, listing)
      THEN <<Call("create_target", path, item.title, item.bestOrder, <<>>, <<>>, TRUE)>>
      ELSE <<>>)

create_order_remote(remote, item, listing) ==
  IF listing_matches(item, listing)
  THEN Append(remote, [TargetID |-> r_nextId, Title |-> item.title,
                       Price |-> item.bestOrder])
  ELSE remote

\* BAD_ITEMS (a config value): the blocklisted substrings.
BAD_ITEMS == {"b"}

\* skin.title.lower()
lower(title) == IF title = "A" THEN "a" ELSE IF title = "B" THEN "b" ELSE title

\* orders.py:392, `i in skin.title.lower()` for some i of BAD_ITEMS.  Titles
\* are single letters, so a substring of a title is the title.
has_bad_item(title) == \E i \in BAD_ITEMS : i = lower(title)

\* orders.py:388-395: one round of the loop over new.  The loop over
\* BAD_ITEMS (391-393) only continues itself and skips nothing.
update_orders_new(offer_prices, listing) ==
  /\ o_pc = "new"
  /\ LET skin == o_new[o_i]
         next == after_new(o_i, o_new, o_good)
         probe == check_offers(skin, offer_prices)
     IN /\ IF balance > skin.bestOrder
           THEN /\ o_log' = o_log
                     \o <<Call("check_offers", "new", skin.title, skin.bestOrder,
                               <<>>, offer_prices, probe)>>
                     \o (IF probe THEN create_order_log(skin, listing, "new") ELSE <<>>)
                /\ r_targets' = IF probe THEN create_order_remote(r_targets, skin, listing)
                                ELSE r_targets
                /\ r_nextId' = IF probe /\ listing_matches(skin, listing)
                               THEN r_nextId + 1 ELSE r_nextId
           ELSE UNCHANGED <<o_log, r_targets, r_nextId>>
        /\ o_pc' = next.pc
        /\ o_i' = next.i
        /\ o_j' = next.j
  /\ UNCHANGED <<r_inactive, balance, o_skins, o_targets, o_new, o_good>>

\* orders.py:396-405: one round of the inner loop over skins for the good
\* target o_good[o_i].  A target's Price is in whole cents, so that
\* i.Price.Amount*100 is the exact number of cents.
update_orders_good(offer_prices, listing) ==
  /\ o_pc = "good"
  /\ LET i == o_good[o_i]
         j == o_skins[o_j]
         next == after_good(o_i, o_j, o_good, o_skins)
         repriced == [j EXCEPT !.bestOrder = order_price(j.maxPrice, j.minPrice, j.bestOrder)]
         probe == check_offers(repriced, offer_prices)
     IN /\ IF i.Title = j.title /\ i.Price # j.bestOrder
           THEN /\ o_skins' = [o_skins EXCEPT ![o_j] = repriced]
                /\ o_log' = o_log
                     \o <<Call("check_offers", "good", repriced.title, repriced.bestOrder,
                               <<>>, offer_prices, probe)>>
                     \o (IF probe
                         THEN delete_log(<<i>>, "good")
                              \o create_order_log(repriced, listing, "good")
                         ELSE <<>>)
                /\ r_targets' = IF probe
                                THEN create_order_remote(remote_delete(r_targets, <<i>>),
                                                         repriced, listing)
                                ELSE r_targets
                /\ r_nextId' = IF probe /\ listing_matches(repriced, listing)
                               THEN r_nextId + 1 ELSE r_nextId
           ELSE UNCHANGED <<o_skins, o_log, r_targets, r_nextId>>
        /\ o_pc' = next.pc
        /\ o_i' = next.i
        /\ o_j' = next.j
  /\ UNCHANGED <<r_inactive, balance, o_targets, o_new, o_good>>

\* DMarketApi.get_balance, dmarketapi.py:165-181, as get_money_loop runs it
\* beside the pass: the cached balance takes the value the remote reports.
get_balance(usd) ==
  /\ balance' = usd
  /\ UNCHANGED <<r_targets, r_inactive, r_nextId, o_pc, o_skins, o_targets, o_new,
                 o_good, o_i, o_j, o_log>>

\* ---- what the remote and the analytics may hand over ---------------------

BestOrders == {5, 10, 20}
TargetPrices == {10}
Balances == {10, 50}
OfferPriceLists == {<<>>, <<6>>, <<30, 6>>}
Listings(title) == {<<>>, <<title>>, <<"other">>}

\* The candidate lists: candidates of distinct titles in title order.
CandidateLists ==
  {<<>>} \cup {<<SkinOrder(t, b)>> : t \in Titles, b \in BestOrders}
  \cup {<<SkinOrder("A", a), SkinOrder("B", b)>> : a \in BestOrders, b \in BestOrders}

\* Remote target lists of n targets with the TargetIDs first..first+n-1.
TargetLists(n, first) ==
  {[k \in 1..n |-> [TargetID |-> first + k - 1, Title |-> tp[k][1], Price |-> tp[k][2]]] :
     tp \in [1..n -> Titles \X TargetPrices]}

OrdersInit ==
  /\ \E n \in 0..MaxTargets : r_targets \in TargetLists(n, 1)
  /\ \E n \in 0..MaxInactive :
        r_inactive \in {q \in TargetLists(n, MaxTargets + 1) :
                          \A k \in DOMAIN q : q[k].Title = "A"}
  /\ r_nextId = MaxTargets + MaxInactive + 1
  /\ balance = 0
  /\ o_pc = "idle"
  /\ o_skins = <<>>
  /\ o_targets = <<>>
  /\ o_new = <<>>
  /\ o_good = <<>>
  /\ o_i = 1
  /\ o_j = 1
  /\ o_log = <<>>

OrdersIdle ==
  /\ r_targets = <<>>
  /\ r_inactive = <<>>
  /\ r_nextId = 1
  /\ balance = 0
  /\ o_pc = "idle"
  /\ o_skins = <<>>
  /\ o_targets = <<>>
  /\ o_new = <<>>
  /\ o_good = <<>>
  /\ o_i = 1
  /\ o_j = 1
  /\ o_log = <<>>

UpdateOrdersFetch == \E skins \in CandidateLists : update_orders_fetch(skins)

\* The remote is asked, and so answers, only where the code's conditions let
\* the round reach its calls.
UpdateOrdersNew ==
  /\ o_pc = "new"
  /\ IF balance > o_new[o_i].bestOrder
     THEN \E offer_prices \in OfferPriceLists, listing \in Listings(o_new[o_i].title) :
             update_orders_new(offer_prices, listing)
     ELSE update_orders_new(<<>>, <<>>)

UpdateOrdersGood ==
  /\ o_pc = "good"
  /\ IF /\ o_good[o_i].Title = o_skins[o_j].title
        /\ o_good[o_i].Price # o_skins[o_j].bestOrder
     THEN \E offer_prices \in OfferPriceLists, listing \in Listings(o_skins[o_j].title) :
             update_orders_good(offer_prices, listing)
     ELSE update_orders_good(<<>>, <<>>)

GetBalance == \E usd \in Balances : get_balance(usd)

----------------------------------------------------------------------------
(* Two full passes (update_orders, add_to_sell, update_offers) over an     *)
(* environment that changes only by what the passes do to it               *)

\* The listing market_offers returns for a title.
ReconListing(title) == IF rc_in.exact THEN <<title>> ELSE <<>>

\* The inventory the remote reports: an item with a confirmed offer is on
\* sale and is no longer reported.
ReconInventory ==
  SelectSeq(rc_in.inv, LAMBDA i : \A k \in DOMAIN ledger :
                          ledger[k].AssetID = i.itemId => ledger[k].OfferID = NULL)

\* The ledger holds one bought, unlisted row per asset, as save_skins leaves
\* it after the first closed trades.
ReconLedger ==
  create_bought(<<>>, [a \in Assets |-> [AssetID |-> a, buyPrice |-> USD(10)]], {}, 1)

ReconIdle ==
  /\ rc_pass = 0
  /\ rc_stage = "none"
  /\ rc_in = [skins |-> <<>>, offer_prices |-> <<>>, exact |-> FALSE, inv |-> <<>>,
              best |-> 0]

ReconInit ==
  /\ rc_pass = 1
  /\ rc_stage = "update_orders"
  /\ \E skins \in CandidateLists, offer_prices \in OfferPriceLists, exact \in BOOLEAN,
        inv \in {i \in InventoryResponses : \A k \in DOMAIN i : i[k].inMarket},
        best \in BestPrices :
        rc_in = [skins |-> skins, offer_prices |-> offer_prices, exact |-> exact,
                 inv |-> inv, best |-> best]
  /\ \E n \in 0..MaxTargets : r_targets \in TargetLists(n, 1)
  /\ r_inactive = <<>>
  /\ r_nextId = MaxTargets + 1
  /\ balance \in Balances
  /\ o_pc = "idle"
  /\ o_skins = <<>>
  /\ o_targets = <<>>
  /\ o_new = <<>>
  /\ o_good = <<>>
  /\ o_i = 1
  /\ o_j = 1
  /\ o_log = <<>>
  /\ ledger = ReconLedger
  /\ l_time = 1
  /\ l_call = [op |-> "save_skins", sent |-> FALSE, body |-> <<>>, Result |-> <<>>]

ReconUpdateOrdersFetch ==
  /\ rc_stage = "update_orders"
  /\ update_orders_fetch(rc_in.skins)
  /\ UNCHANGED <<rc_vars, l_vars>>

ReconUpdateOrdersNew ==
  /\ rc_stage = "update_orders"
  /\ o_pc = "new"
  /\ update_orders_new(rc_in.offer_prices, ReconListing(o_new[o_i].title))
  /\ UNCHANGED <<rc_vars, l_vars>>

ReconUpdateOrdersGood ==
  /\ rc_stage = "update_orders"
  /\ o_pc = "good"
  /\ update_orders_good(rc_in.offer_prices, ReconListing(o_skins[o_j].title))
  /\ UNCHANGED <<rc_vars, l_vars>>

\* The remote confirms every entry of the create request.
ReconAddToSell ==
  /\ rc_stage = "update_orders"
  /\ o_pc = "done"
  /\ LET body == create_offers_of(priced(invent_of(ReconInventory), select_not_sell(ledger)))
     IN add_to_sell(ReconInventory, DOMAIN body, TRUE)
  /\ rc_stage' = "update_offers"
  /\ UNCHANGED <<rc_pass, rc_in, o_vars>>

\* The remote confirms every entry of the edit request; after the first pass
\* the second begins, after the second the run ends.
ReconUpdateOffers ==
  /\ rc_stage = "update_offers"
  /\ LET best == [a \in OnSellAssets |-> rc_in.best]
         body == items_to_update_of(on_sell_of(ledger), best)
     IN update_offers(best, DOMAIN body, "no")
  /\ rc_stage' = IF rc_pass = 1 THEN "update_orders" ELSE "end"
  /\ rc_pass' = IF rc_pass = 1 THEN 2 ELSE rc_pass
  /\ o_pc' = "idle"
  /\ UNCHANGED <<rc_in, r_targets, r_inactive, r_nextId, balance, o_skins, o_targets,
                 o_new, o_good, o_i, o_j, o_log>>

----------------------------------------------------------------------------
(* Gateway: catch_exception, validate_response, api_call, get_money_loop   *)

\* The keys and values a response's headers dict may hold.  dict() keeps the
\* keys as the server spelled them and a lookup is exact.
HeaderKeys == {"content-type", "RateLimit-Remaining", "RateLimit-Reset"}
Headers ==
  UNION {[K -> {"application/json", "text/html", "0", "1", "2", "3"}] : K \in SUBSET HeaderKeys}

\* int() of a header value.
int_of(str) == IF str = "0" THEN 0 ELSE IF str = "1" THEN 1 ELSE IF str = "2" THEN 2 ELSE 3

Returned(body) == [kind |-> "return", exc |-> "", body |-> body]
Raised(exc) == [kind |-> "raise", exc |-> exc, body |-> [usd |-> NULL]]

\* DMarketApi.catch_exception, dmarketapi.py:73-90: the exception it raises,
\* "" if it returns.  A missing key makes headers['content-type'] raise
\* KeyError.
catch_exception(response_status, headers) ==
  IF response_status = 400 THEN "BadRequestError"
  ELSE IF response_status = 502 \/ response_status = 500 THEN "BadGatewayError"
  ELSE IF response_status = 429 THEN "TooManyRequests"
  ELSE IF response_status = 401 THEN "BadAPIKeyException"
  ELSE IF response_status # 200
       THEN IF "content-type" \notin DOMAIN headers THEN "KeyError"
            ELSE IF headers["content-type"] # "application/json"
                 THEN "WrongResponseException"
                 ELSE ""
       ELSE ""

\* response.json(): the body of a JSON response; the client library raises
\* on any other content type.
json_of(response) ==
  IF /\ "content-type" \in DOMAIN response.headers
     /\ response.headers["content-type"] = "application/json"
  THEN Returned(response.body)
  ELSE Raised("ContentTypeError")

\* A slip in the quota test of validate_response: only '0' counts.
low_quota_zero(headers) ==
  "RateLimit-Remaining" \in DOMAIN headers /\ headers["RateLimit-Remaining"] \in {"0"}

\* dmarketapi.py:102: the quota header is there and says '1' or '0'.
low_quota(headers) ==
  "RateLimit-Remaining" \in DOMAIN headers /\ headers["RateLimit-Remaining"] \in {"1", "0"}

\* DMarketApi.validate_response, dmarketapi.py:92-113: its sleeps and its
\* outcome.
validate_response(response) ==
  LET headers == response.headers
      grace == IF "RateLimit-Remaining" \notin DOMAIN headers THEN <<GraceSleep>> ELSE <<>>
      exc == catch_exception(response.status, headers)
  IN IF low_quota(headers) /\ "RateLimit-Reset" \notin DOMAIN headers
     THEN [sleeps |-> grace, out |-> Raised("KeyError")]
     ELSE [sleeps |-> grace \o (IF low_quota(headers)
                               THEN <<int_of(headers["RateLimit-Reset"])>> ELSE <<>>),
           out |-> IF exc # "" THEN Raised(exc) ELSE json_of(response)]

\* DMarketApi.api_call, dmarketapi.py:115-146: one request, whatever the
\* method, and the response goes through validate_response.
api_call(method, path, response) ==
  /\ g_req' = [method |-> method, path |-> path]
  /\ g_sent' = 1
  /\ g_resp' = response
  /\ g_sleeps' = validate_response(response).sleeps
  /\ g_out' = validate_response(response).out

\* DMarketApi.get_balance, dmarketapi.py:165-181, through the gateway: the
\* cached balance is replaced when the call returns a body with 'usd'.
get_balance_call(response) ==
  /\ api_call("GET", "/account/v1/balance", response)
  /\ balance' = IF /\ validate_response(response).out.kind = "return"
                   /\ response.body.usd # NULL
                THEN response.body.usd ELSE balance

\* dmarketapi.py:192-197: what the except clauses of get_money_loop do with
\* an exception raised inside the try.  CancelledError is
\* asyncio.CancelledError (dmarketapi.py:6); every other name of the model
\* is an Exception.
except_clause_swallow(exc) ==
  IF exc = "KeyboardInterrupt" THEN "break" ELSE "continue"

except_clause(exc) ==
  IF exc = "KeyboardInterrupt" THEN "break"
  ELSE IF exc = "CancelledError" THEN "break"
  ELSE "continue"

\* Where the loop is after an await that ended with exc ("" if it returned).
after_await(exc, then) ==
  IF exc = "" THEN then
  ELSE IF except_clause(exc) = "break" THEN "returned" ELSE "loop"

\* DMarketApi.get_money_loop, dmarketapi.py:183-198: `await
\* self.get_balance()`.  interrupt: the KeyboardInterrupt or CancelledError
\* thrown into the await while the request is in flight, "" if none is.
get_money_loop(response, interrupt) ==
  /\ m_pc = "loop"
  /\ m_requests' = m_requests + 1
  /\ m_sleeps' = <<>>
  /\ IF interrupt # ""
     THEN /\ m_last' = interrupt
          /\ m_pc' = after_await(interrupt, "sleep")
          /\ g_req' = [method |-> "GET", path |-> "/account/v1/balance"]
          /\ g_sent' = 1
          /\ UNCHANGED <<g_resp, g_sleeps, g_out, balance>>
     ELSE /\ get_balance_call(response)
          /\ m_last' = validate_response(response).out.exc
          /\ m_pc' = after_await(validate_response(response).out.exc, "sleep")
  /\ UNCHANGED <<r_targets, r_inactive, r_nextId, o_pc, o_skins, o_targets, o_new,
                 o_good, o_i, o_j, o_log>>

\* dmarketapi.py:191: `await asyncio.sleep(60*5)`, which ends after the full
\* time or with the interrupt thrown into it.
get_money_loop_sleep(interrupt) ==
  /\ m_pc = "sleep"
  /\ IF interrupt # ""
     THEN /\ m_last' = interrupt
          /\ m_sleeps' = m_sleeps
     ELSE /\ m_last' = m_last
          /\ m_sleeps' = <<SleepSeconds>>
  /\ m_pc' = after_await(interrupt, "loop")
  /\ UNCHANGED <<g_req, g_sent, g_resp, g_sleeps, g_out, m_requests, balance>>
  /\ UNCHANGED <<r_targets, r_inactive, r_nextId, o_pc, o_skins, o_targets, o_new,
                 o_good, o_i, o_j, o_log>>

\* ---- what the remote may answer -----------------------------------------

Statuses == {200, 204, 400, 401, 403, 404, 429, 500, 502}

\* Headers whose values fit their keys.
ResponseHeaders ==
  {h \in Headers :
     /\ "content-type" \in DOMAIN h => h["content-type"] \in {"application/json", "text/html"}
     /\ "RateLimit-Remaining" \in DOMAIN h => h["RateLimit-Remaining"] \in {"0", "1", "2"}
     /\ "RateLimit-Reset" \in DOMAIN h => h["RateLimit-Reset"] \in {"1", "3"}}

Responses ==
  [status : Statuses, headers : ResponseHeaders, body : [usd : {NULL, 50}]]

NoResponse == [status |-> 0, headers |-> <<>>, body |-> [usd |-> NULL]]

GatewayIdle ==
  /\ g_req = [method |-> "", path |-> ""]
  /\ g_sent = 0
  /\ g_resp = NoResponse
  /\ g_sleeps = <<>>
  /\ g_out = Returned([usd |-> NULL])
  /\ m_pc = "returned"
  /\ m_requests = 0
  /\ m_last = ""
  /\ m_sleeps = <<>>

MoneyInit ==
  /\ g_req = [method |-> "", path |-> ""]
  /\ g_sent = 0
  /\ g_resp = NoResponse
  /\ g_sleeps = <<>>
  /\ g_out = Returned([usd |-> NULL])
  /\ m_pc = "loop"
  /\ m_requests = 0
  /\ m_last = ""
  /\ m_sleeps = <<>>

\* A task calls the gateway once.
ApiCall ==
  /\ g_sent = 0
  /\ \E method \in {"GET", "POST", "DELETE"}, response \in Responses :
        api_call(method, "/path", response)
  /\ UNCHANGED <<m_pc, m_requests, m_last, m_sleeps>>

Interrupts == {"KeyboardInterrupt", "CancelledError"}

GetMoneyLoop ==
  /\ m_requests < MaxBalanceRequests
  /\ \E response \in Responses : get_money_loop(response, "")

GetMoneyLoopInterrupted ==
  /\ m_requests < MaxBalanceRequests
  /\ \E interrupt \in Interrupts : get_money_loop(NoResponse, interrupt)

GetMoneyLoopSleep == get_money_loop_sleep("")

GetMoneyLoopSleepInterrupted == \E interrupt \in Interrupts : get_money_loop_sleep(interrupt)

----------------------------------------------------------------------------
(* SkinBase.get_items: the paging loop over the market's offers            *)

\* The remote's answer to market_offers(cursor=...): the next PageLimit
\* offers of the range after the cursor, none once the range is exhausted.
page_size(market, cursor) ==
  IF market > cursor THEN Min(PageLimit, market - cursor) ELSE 0

\* skinbase.py:51-53: the first request, without a cursor; total_offers
\* starts at 0, so the while loop is entered.
get_items_first ==
  /\ sb_pc = "idle"
  /\ sb_len' = page_size(sb_market, 0)
  /\ sb_cursor' = page_size(sb_market, 0)
  /\ sb_total' = 0
  /\ sb_requests' = 1 % RequestWindow
  /\ sb_pc' = "paging"
  /\ UNCHANGED sb_market

\* skinbase.py:54-61: one round of the while loop; when its condition fails
\* the offers are sorted, grouped and filtered and the function returns
\* (62-64).
get_items_page ==
  /\ sb_pc = "paging"
  /\ LET n == page_size(sb_market, sb_cursor)
     IN /\ sb_len' = sb_len + n
        /\ sb_cursor' = sb_cursor + n
        /\ sb_total' = sb_total + n
        /\ sb_requests' = (sb_requests + 1) % RequestWindow
        /\ sb_pc' = IF sb_total + n < OffersWanted THEN "paging" ELSE "done"
  /\ UNCHANGED sb_market

MarketSizes == {50 * k : k \in 0..MaxMarket}

SkinBaseInit ==
  /\ sb_market \in MarketSizes
  /\ sb_pc = "idle"
  /\ sb_cursor = 0
  /\ sb_total = 0
  /\ sb_len = 0
  /\ sb_requests = 0

SkinBaseIdle ==
  /\ sb_market = 0
  /\ sb_pc = "done"
  /\ sb_cursor = 0
  /\ sb_total = 0
  /\ sb_len = 0
  /\ sb_requests = 0

GetItemsFirst == get_items_first

GetItemsPage == get_items_page

----------------------------------------------------------------------------
(* Specifications, one per component; the other components stay idle.      *)

InitPrice == PriceInit /\ ChunkIdle /\ LedgerIdle /\ OrdersIdle /\ ReconIdle /\ GatewayIdle /\ SkinBaseIdle

NextPrice ==
  \/ CallOfferPrice /\ UNCHANGED <<ch_vars, l_vars, o_vars, rc_vars, g_vars, sb_vars>>
  \/ CallOrderPrice /\ UNCHANGED <<ch_vars, l_vars, o_vars, rc_vars, g_vars, sb_vars>>

SpecPrice == InitPrice /\ [][NextPrice]_vars

InitChunk == ChunkInit /\ PriceIdle /\ LedgerIdle /\ OrdersIdle /\ ReconIdle /\ GatewayIdle /\ SkinBaseIdle

NextChunk ==
  \/ ChunkRecurse /\ UNCHANGED <<pr_vars, l_vars, o_vars, rc_vars, g_vars, sb_vars>>
  \/ ChunkApiCall /\ UNCHANGED <<pr_vars, l_vars, o_vars, rc_vars, g_vars, sb_vars>>

SpecChunk == InitChunk /\ [][NextChunk]_vars

InitLedger == LedgerInit /\ PriceIdle /\ ChunkIdle /\ OrdersIdle /\ ReconIdle /\ GatewayIdle /\ SkinBaseIdle

NextLedger ==
  \/ SaveSkins /\ UNCHANGED <<pr_vars, ch_vars, o_vars, rc_vars, g_vars, sb_vars>>
  \/ AddToSell /\ UNCHANGED <<pr_vars, ch_vars, o_vars, rc_vars, g_vars, sb_vars>>
  \/ UpdateOffers /\ UNCHANGED <<pr_vars, ch_vars, o_vars, rc_vars, g_vars, sb_vars>>

SpecLedger == InitLedger /\ [][NextLedger]_vars

\* The ledger handlers, each of which may also stop in its write-back.
NextCrash ==
  \/ SaveSkins /\ UNCHANGED <<pr_vars, ch_vars, o_vars, rc_vars, g_vars, sb_vars>>
  \/ AddToSell /\ UNCHANGED <<pr_vars, ch_vars, o_vars, rc_vars, g_vars, sb_vars>>
  \/ UpdateOffers /\ UNCHANGED <<pr_vars, ch_vars, o_vars, rc_vars, g_vars, sb_vars>>
  \/ AddToSellCrash /\ UNCHANGED <<pr_vars, ch_vars, o_vars, rc_vars, g_vars, sb_vars>>
  \/ UpdateOffersCrash /\ UNCHANGED <<pr_vars, ch_vars, o_vars, rc_vars, g_vars, sb_vars>>

SpecCrash == InitLedger /\ [][NextCrash]_vars

InitOrders == OrdersInit /\ PriceIdle /\ ChunkIdle /\ LedgerIdle /\ ReconIdle /\ GatewayIdle /\ SkinBaseIdle

NextOrders ==
  \/ UpdateOrdersFetch /\ UNCHANGED <<pr_vars, ch_vars, l_vars, rc_vars, g_vars, sb_vars>>
  \/ UpdateOrdersNew /\ UNCHANGED <<pr_vars, ch_vars, l_vars, rc_vars, g_vars, sb_vars>>
  \/ UpdateOrdersGood /\ UNCHANGED <<pr_vars, ch_vars, l_vars, rc_vars, g_vars, sb_vars>>
  \/ GetBalance /\ UNCHANGED <<pr_vars, ch_vars, l_vars, rc_vars, g_vars, sb_vars>>

SpecOrders == InitOrders /\ [][NextOrders]_vars

InitRecon == ReconInit /\ PriceIdle /\ ChunkIdle /\ GatewayIdle /\ SkinBaseIdle

NextRecon ==
  \/ ReconUpdateOrdersFetch /\ UNCHANGED <<pr_vars, ch_vars, g_vars, sb_vars>>
  \/ ReconUpdateOrdersNew /\ UNCHANGED <<pr_vars, ch_vars, g_vars, sb_vars>>
  \/ ReconUpdateOrdersGood /\ UNCHANGED <<pr_vars, ch_vars, g_vars, sb_vars>>
  \/ ReconAddToSell /\ UNCHANGED <<pr_vars, ch_vars, g_vars, sb_vars>>
  \/ ReconUpdateOffers /\ UNCHANGED <<pr_vars, ch_vars, g_vars, sb_vars>>

SpecRecon == InitRecon /\ [][NextRecon]_vars

InitGateway ==
  GatewayIdle /\ PriceIdle /\ ChunkIdle /\ LedgerIdle /\ OrdersIdle /\ ReconIdle /\ SkinBaseIdle

NextGateway ==
  \/ ApiCall /\ UNCHANGED <<pr_vars, ch_vars, l_vars, o_vars, rc_vars, sb_vars>>

SpecGateway == InitGateway /\ [][NextGateway]_vars

InitMoney ==
  MoneyInit /\ PriceIdle /\ ChunkIdle /\ LedgerIdle /\ OrdersIdle /\ ReconIdle /\ SkinBaseIdle

NextMoney ==
  \/ GetMoneyLoop /\ UNCHANGED <<pr_vars, ch_vars, l_vars, rc_vars, sb_vars>>
  \/ GetMoneyLoopInterrupted /\ UNCHANGED <<pr_vars, ch_vars, l_vars, rc_vars, sb_vars>>
  \/ GetMoneyLoopSleep /\ UNCHANGED <<pr_vars, ch_vars, l_vars, rc_vars, sb_vars>>
  \/ GetMoneyLoopSleepInterrupted /\ UNCHANGED <<pr_vars, ch_vars, l_vars, rc_vars, sb_vars>>

SpecMoney == InitMoney /\ [][NextMoney]_vars

InitSkinBase ==
  SkinBaseInit /\ PriceIdle /\ ChunkIdle /\ LedgerIdle /\ OrdersIdle /\ ReconIdle /\ GatewayIdle

NextSkinBase ==
  \/ GetItemsFirst /\ UNCHANGED <<pr_vars, ch_vars, l_vars, o_vars, rc_vars, g_vars>>
  \/ GetItemsPage /\ UNCHANGED <<pr_vars, ch_vars, l_vars, o_vars, rc_vars, g_vars>>

\* The remote answers every request, so a started get_items takes its next
\* step.
SpecSkinBase ==
  InitSkinBase /\ [][NextSkinBase]_vars /\ WF_vars(NextSkinBase)

----------------------------------------------------------------------------
(* Claims about the pricing engine                                         *)

\* C1: offer_price returns min_p when best < min_p, best - 0.01 when
\* min_p <= best <= max_p (the boundary best = min_p included), and max_p
\* otherwise; 10 for best=5, 14.99 for best=15, 20 for best=25 with
\* min_p=10, max_p=20.
C1_OfferPriceCases ==
  pr_fn = "offer_price" =>
    /\ pr_ret = IF pr_best < pr_min THEN pr_min
                ELSE IF pr_min <= pr_best /\ pr_best <= pr_max THEN pr_best - Cent
                ELSE pr_max
    /\ (pr_min = USD(10) /\ pr_max = USD(20) /\ pr_best = USD(5)) => pr_ret = USD(10)
    /\ (pr_min = USD(10) /\ pr_max = USD(20) /\ pr_best = USD(15)) => pr_ret = USD(15) - Cent
    /\ (pr_min = USD(10) /\ pr_max = USD(20) /\ pr_best = USD(25)) => pr_ret = USD(20)

\* C2: for min_p <= max_p and any best, on or between the 0.01 grid points,
\* the result of offer_price lies in [min_p, max_p].
C2_OfferPriceInBand ==
  (pr_fn = "offer_price" /\ pr_min <= pr_max) =>
    (pr_min <= pr_ret /\ pr_ret <= pr_max)

\* C3: order_price returns max_p when best > max_p, best + 1 when
\* min_p < best <= max_p, and min_p otherwise; 20 for best=25, 16 for best=15
\* and 10 for best=5 with min_p=10, max_p=20.
C3_OrderPriceCases ==
  pr_fn = "order_price" =>
    /\ (pr_best > pr_max) => pr_ret = pr_max
    /\ (pr_min < pr_best /\ pr_best <= pr_max) => pr_ret = pr_best + 1
    /\ (pr_best <= pr_max /\ pr_best <= pr_min) => pr_ret = pr_min
    /\ (pr_min = 10 /\ pr_max = 20 /\ pr_best = 25) => pr_ret = 20
    /\ (pr_min = 10 /\ pr_max = 20 /\ pr_best = 15) => pr_ret = 16
    /\ (pr_min = 10 /\ pr_max = 20 /\ pr_best = 5) => pr_ret = 10

C3_Witness ==
  /\ pr_fn = "order_price"
  /\ pr_min = 10 /\ pr_max = 20 /\ pr_best = 15
  /\ pr_ret = 16

\* C4: for min_p <= max_p and every integer best (best = max_p included) the
\* result of order_price lies in [min_p, max_p].
C4_OrderPriceInBand ==
  (pr_fn = "order_price" /\ pr_min <= pr_max) =>
    (pr_min <= pr_ret /\ pr_ret <= pr_max)

----------------------------------------------------------------------------
(* Claims about the chunked bulk calls                                     *)

\* Number of items submitted by the first n outbound calls.
RECURSIVE SubmittedCount(_, _)
SubmittedCount(calls, n) ==
  IF n = 0 THEN 0 ELSE Len(calls[n]) + SubmittedCount(calls, n - 1)

\* C5: for N in {0, C-1, C, C+1, 10*C} items (C = 150 for delete_target,
\* 100 for agregated_prices) the returned list equals what one uncapped call
\* on the whole list would return (same count, same order), no outbound call
\* carries more than C items, and every input item is submitted exactly once.
C5_ChunkingPreservesOrder ==
  /\ \A c \in DOMAIN ch_calls : Len(ch_calls[c]) <= Cap(ch_kind)
  /\ ch_pc = "done" =>
       /\ ch_ret = RemoteResult(ch_input)
       /\ SubmittedCount(ch_calls, Len(ch_calls)) = Len(ch_input)
       /\ \A i \in DOMAIN ch_input :
            \E c \in DOMAIN ch_calls : \E k \in DOMAIN ch_calls[c] :
               ch_calls[c][k] = ch_input[i]

C5_Witness ==
  /\ ch_pc = "done"
  /\ Len(ch_input) = 10 * Cap(ch_kind)
  /\ Len(ch_calls) = 10
  /\ Len(ch_ret) = 10 * Cap(ch_kind)

----------------------------------------------------------------------------
(* Claims about the ledger and the offer reconciler                        *)

\* C7: in every reachable state of the ledger no two rows share an AssetID,
\* also after save_skins passes whose closed-trades response lists an
\* AssetID more than once or repeats one seen in an earlier pass.
C7_OneRowPerAsset ==
  \A i \in DOMAIN ledger : \A j \in DOMAIN ledger :
     i # j => ledger[i].AssetID # ledger[j].AssetID

\* C8: a row whose sellTime is set is terminal: no later step of save_skins,
\* add_to_sell or update_offers puts its AssetID into a create-offer or
\* edit-offer request, and its OfferID, sellPrice and sellTime never change.
C8_SoldIsTerminal ==
  [][\A i \in DOMAIN ledger :
       ledger[i].sellTime # NULL =>
         /\ i \in DOMAIN ledger'
         /\ ledger'[i].AssetID = ledger[i].AssetID
         /\ ledger'[i].OfferID = ledger[i].OfferID
         /\ ledger'[i].sellPrice = ledger[i].sellPrice
         /\ ledger'[i].sellTime = ledger[i].sellTime
         /\ \A k \in DOMAIN l_call'.body :
              l_call'.body[k].AssetID # ledger[i].AssetID]_vars

\* A row was sold in an earlier pass, and the pass that has just run sent a
\* create or edit request that the remote confirmed.
C8_Witness ==
  /\ \E i \in DOMAIN ledger :
        ledger[i].sellTime # NULL /\ ledger[i].sellTime < l_time
  /\ l_call.op \in {"add_to_sell", "update_offers"}
  /\ l_call.body # <<>>
  /\ l_call.Result # <<>>

\* The step is a run of add_to_sell or update_offers.
OfferPassStep ==
  l_time' # l_time /\ (l_call'.op = "add_to_sell" \/ l_call'.op = "update_offers")

Confirms(Result, a) == \E k \in DOMAIN Result : Result[k].AssetID = a

\* C17: in add_to_sell and update_offers the OfferID and sellPrice of a
\* ledger entry change only if Result holds a confirmation for its AssetID,
\* and they become the offer id and the price of that confirmation; an entry
\* that was submitted and not confirmed keeps its row as it was (so the next
\* pass, which builds its request from the unsold rows and the remote's
\* answers, submits it again).
C17_OnlyConfirmedWritten ==
  [][OfferPassStep =>
       (/\ Len(ledger') = Len(ledger)
        /\ \A i \in DOMAIN ledger :
              (ledger'[i].OfferID # ledger[i].OfferID \/ ledger'[i].sellPrice # ledger[i].sellPrice)
                 => \E k \in DOMAIN l_call'.Result :
                       /\ l_call'.Result[k].AssetID = ledger[i].AssetID
                       /\ ledger'[i].OfferID = l_call'.Result[k].OfferID
                       /\ ledger'[i].sellPrice = l_call'.Result[k].Amount
        /\ \A k \in DOMAIN l_call'.body :
              ~Confirms(l_call'.Result, l_call'.body[k].AssetID)
                 => \A i \in DOMAIN ledger :
                       ledger[i].AssetID = l_call'.body[k].AssetID => ledger'[i] = ledger[i])]_vars

C17_Witness ==
  /\ l_call.op = "add_to_sell"
  /\ Len(l_call.body) = 2
  /\ Len(l_call.Result) = 1
  /\ \E i \in DOMAIN ledger :
        /\ ledger[i].AssetID = l_call.Result[1].AssetID
        /\ ledger[i].OfferID = l_call.Result[1].OfferID
        /\ ledger[i].sellPrice = l_call.Result[1].Amount
  /\ \E i \in DOMAIN ledger :
        /\ ledger[i].AssetID # l_call.Result[1].AssetID
        /\ ledger[i].OfferID = NULL

\* C18: a failure about one item of an offer pass does not abort the batch:
\* a run of update_offers over two or more listed entries, and every run of
\* add_to_sell, still issues its edit or create request.
C18_ItemFailureKeepsBatch ==
  [][(OfferPassStep /\ (l_call'.op = "update_offers" => Len(on_sell_of(ledger)) >= 2))
        => l_call'.sent]_vars

\* The confirmation Result[k] has been written to the ledger.
Written(k) ==
  \E i \in DOMAIN ledger :
     /\ ledger[i].AssetID = l_call.Result[k].AssetID
     /\ ledger[i].OfferID = l_call.Result[k].OfferID

\* C19: when add_to_sell or update_offers has stopped, at its end or before,
\* the ledger holds all of the confirmations of its batch or none of them.
C19_AllOrNothing ==
  l_call.op \in {"add_to_sell", "update_offers"} =>
    \/ \A k \in DOMAIN l_call.Result : Written(k)
    \/ \A k \in DOMAIN l_call.Result : ~Written(k)

\* C20: update_offers puts a listed, unsold entry into its edit request if
\* and only if the price offer_price gives for the best competing price,
\* rounded to 2 decimals, differs from the recorded sellPrice rounded to 2
\* decimals; and a run in which no entry got a new price issued no edit
\* request.
C20_EditIffPriceDiffers ==
  /\ \A best \in [OnSellAssets -> BestPrices] :
        LET on_sell == on_sell_of(ledger)
            body == items_to_update_of(on_sell, best)
        IN \A n \in DOMAIN on_sell :
              (\E k \in DOMAIN body : body[k].AssetID = on_sell[n].AssetID)
                 <=> round2(offer_price(markup(on_sell[n].buyPrice, MAX_PERCENT, on_sell[n].fee),
                                        markup(on_sell[n].buyPrice, MIN_PERCENT, on_sell[n].fee),
                                        best[on_sell[n].AssetID]))
                        # round2(on_sell[n].sellPrice)
  /\ (l_call.op = "update_offers" /\ l_call.body = <<>>) => ~l_call.sent

\* The step is a run of add_to_sell.
AddToSellStep == l_time' # l_time /\ l_call'.op = "add_to_sell"

\* C21: add_to_sell puts into its create request only inventory items whose
\* AssetID is that of an unsold ledger entry that is not yet listed (OfferID
\* null): no entry that already has an OfferID, and no item without an
\* unsold ledger entry.
C21_CreateOnlyUnlisted ==
  [][AddToSellStep =>
       \A k \in DOMAIN l_call'.body :
          \E i \in DOMAIN ledger :
             /\ ledger[i].AssetID = l_call'.body[k].AssetID
             /\ ledger[i].sellTime = NULL
             /\ ledger[i].OfferID = NULL]_vars

\* C22: the price add_to_sell submits for an entry is
\* offer_price(max, min, best) rounded to 2 decimals, with max and min the
\* marked-up buyPrice at the item's fee and best the best competing price,
\* whatever that best price is.
C22_InitialPriceFromBest ==
  [][AddToSellStep =>
       \A k \in DOMAIN l_call'.body, best \in BestPrices :
          LET a == l_call'.body[k].AssetID
              skins == select_not_sell(ledger)
              j == LastMatch(skins, a)
          IN j # 0 =>
               l_call'.body[k].Amount =
                 round2(offer_price(markup(skins[j].buyPrice, MAX_PERCENT, FeeOf(a)),
                                    markup(skins[j].buyPrice, MIN_PERCENT, FeeOf(a)),
                                    best))]_vars

\* What the remote can answer to user_offers(status='OfferStatusDefault'):
\* listings of some assets, each active or sold.
DefaultStatusResponses ==
  UNION {{[k \in 1..Cardinality(S) |->
             [AssetID |-> AscList(S)[k], OfferID |-> AscList(S)[k],
              Price |-> p, Title |-> TitleOf(AscList(S)[k]),
              Status |-> IF AscList(S)[k] \in Sold THEN "OfferStatusSold"
                         ELSE "OfferStatusActive"]] :
          Sold \in SUBSET S, p \in ListedPrices} :
         S \in SUBSET Assets}

\* offers.py:60-62: the SellOffer objects save_skins builds from the listings.
sell_of(items, now) ==
  [k \in DOMAIN items |->
     [AssetID |-> items[k].AssetID, OfferID |-> items[k].OfferID,
      sellPrice |-> items[k].Price, sellTime |-> now, title |-> items[k].Title]]

\* C23: the sweep of save_skins sets sellTime, sellPrice and OfferID of an
\* unsold entry only when a listing with its AssetID is in sold status, and
\* then to the listed price less the fee; an entry whose listing is active
\* keeps sellTime null.
C23_SweepOnlySold ==
  \A items \in DefaultStatusResponses :
     LET swept == sold_sweep(ledger, sell_of(items, l_time + 1))
     IN \A n \in DOMAIN ledger :
           ledger[n].sellTime = NULL =>
             /\ swept[n] # ledger[n] =>
                  \E k \in DOMAIN items :
                     /\ items[k].AssetID = ledger[n].AssetID
                     /\ items[k].Status = "OfferStatusSold"
                     /\ swept[n].sellPrice = net_of_fee(items[k].Price, ledger[n].fee)
             /\ (\E k \in DOMAIN items :
                    /\ items[k].AssetID = ledger[n].AssetID
                    /\ items[k].Status = "OfferStatusActive")
                  => swept[n].sellTime = NULL

----------------------------------------------------------------------------
(* Claims about the target reconciler                                      *)

\* The TargetIDs update_orders put into its batch delete.
BatchIds ==
  UNION {{o_log[k].ids[n] : n \in DOMAIN o_log[k].ids} :
           k \in {m \in DOMAIN o_log : o_log[m].op = "delete_target" /\ o_log[m].path = "batch"}}

\* C9: in update_orders, for every title with more than one fetched active
\* target, wherever those targets stand in the fetched list, every target
\* after the first of its title is in the deletion batch and the first (of a
\* candidate's title) is not; for targets [A#1, A#2, B#3] (all at the
\* candidate's price) and candidates [A] the batch holds exactly 2 and 3 of
\* the active targets and no create-target request is issued.
C9_DuplicateCollapse ==
  o_pc # "idle" =>
    /\ \A k \in DOMAIN o_targets :
          (\E m \in 1..(k - 1) : o_targets[m].Title = o_targets[k].Title)
             => o_targets[k].TargetID \in BatchIds
    /\ \A k \in DOMAIN o_targets :
          (/\ \A m \in 1..(k - 1) : o_targets[m].Title # o_targets[k].Title
           /\ \E n \in DOMAIN o_skins : o_skins[n].title = o_targets[k].Title)
             => o_targets[k].TargetID \notin BatchIds
    /\ (/\ o_targets = <<[TargetID |-> 1, Title |-> "A", Price |-> 10],
                         [TargetID |-> 2, Title |-> "A", Price |-> 10],
                         [TargetID |-> 3, Title |-> "B", Price |-> 10]>>
        /\ o_skins = <<SkinOrder("A", 10)>>)
          => /\ BatchIds \cap {o_targets[k].TargetID : k \in DOMAIN o_targets} = {2, 3}
             /\ \A k \in DOMAIN o_log : o_log[k].op # "create_target"

\* C10: no step of update_orders, on the new-candidate path or on the
\* re-price path, issues a create-target request whose price is greater than
\* or equal to the cached balance, whatever the profitability probe answered.
C10_BalanceGate ==
  [][(o_pc = "new" \/ o_pc = "good") =>
       (\A k \in (Len(o_log) + 1)..Len(o_log') :
           (o_log'[k].op = "create_target" => o_log'[k].price < balance))]_vars

\* C11: in update_orders no probe (check_offers) and no create_order (its
\* market_offers lookup, its create-target request) is ever issued on the
\* new-candidate path for a candidate whose lower-cased title contains a
\* BAD_ITEMS substring.
C11_BlocklistGate ==
  \A k \in DOMAIN o_log :
     (o_log[k].path = "new" /\ o_log[k].op \in {"check_offers", "market_offers", "create_target"})
        => ~has_bad_item(o_log[k].title)

\* The step is the start of an update_orders pass, up to its batch delete.
FetchStep == o_pc = "idle" /\ o_pc' # "idle"

\* The TargetIDs of a delete request.
IdsOf(call) == {call.ids[n] : n \in DOMAIN call.ids}

\* C24: the pass starts with one batch delete request that holds every
\* active target whose title is not a candidate's, every inactive target and
\* every target after the first of its title, and not the first active
\* target of a candidate's title; every create-target request of the pass
\* comes after it.
C24_BatchDeleteFirst ==
  [][/\ FetchStep =>
          /\ Len(o_log') = 1
          /\ o_log'[1].op = "delete_target"
          /\ \A k \in DOMAIN r_inactive : r_inactive[k].TargetID \in IdsOf(o_log'[1])
          /\ \A k \in DOMAIN r_targets :
                LET candidate == \E n \in DOMAIN o_skins' : o_skins'[n].title = r_targets[k].Title
                    first == \A m \in 1..(k - 1) : r_targets[m].Title # r_targets[k].Title
                IN /\ ~candidate => r_targets[k].TargetID \in IdsOf(o_log'[1])
                   /\ ~first => r_targets[k].TargetID \in IdsOf(o_log'[1])
                   /\ (candidate /\ first) => r_targets[k].TargetID \notin IdsOf(o_log'[1])
     /\ \A n \in DOMAIN o_log' :
           o_log'[n].op = "create_target" =>
              /\ o_log'[1].op = "delete_target" /\ o_log'[1].path = "batch"
              /\ \A m \in n..Len(o_log') : o_log'[m].path # "batch"]_vars

\* The o_log entries the step adds.
NewCalls == (Len(o_log) + 1)..Len(o_log')

\* C25: a re-price is delete then recreate: a step of the re-price loop that
\* deletes the good target also issues, after the delete, a create-target
\* request for its title at the price order_price gives.
C25_RepriceRecreates ==
  [][(o_pc = "good" /\ o_pc' # "idle") =>
       \A k \in NewCalls :
          o_log'[k].op = "delete_target" =>
             \E m \in NewCalls :
                /\ m > k
                /\ o_log'[m].op = "create_target"
                /\ o_log'[m].title = o_good[o_i].Title
                /\ o_log'[m].price = order_price(o_skins[o_j].maxPrice, o_skins[o_j].minPrice,
                                                 o_skins[o_j].bestOrder)]_vars

\* C26: every create-target request of a pass comes after a check_offers
\* probe of the same pass for the same title and price that got at least one
\* live offer priced at or above price * (1 + PROFIT_PERCENT/100), and after
\* a market_offers lookup for the title whose first listing has exactly that
\* title.
C26_CreateOnlyAfterProbes ==
  \A n \in DOMAIN o_log :
     o_log[n].op = "create_target" =>
        /\ \E a \in 1..(n - 1) :
              /\ o_log[a].op = "check_offers"
              /\ o_log[a].title = o_log[n].title
              /\ o_log[a].price = o_log[n].price
              /\ \E k \in DOMAIN o_log[a].seen :
                    o_log[n].price * (100 + PROFIT_PERCENT) <= o_log[a].seen[k] * 100
        /\ \E b \in 1..(n - 1) :
              /\ o_log[b].op = "market_offers"
              /\ o_log[b].title = o_log[n].title
              /\ o_log[b].seen # <<>>
              /\ o_log[b].seen[1] = o_log[n].title

\* A pass that created one target for a new candidate and one by re-pricing.
C26_Witness ==
  /\ \E n \in DOMAIN o_log : o_log[n].op = "create_target" /\ o_log[n].path = "new"
  /\ \E n \in DOMAIN o_log : o_log[n].op = "create_target" /\ o_log[n].path = "good"

\* C29: within one pass at most one create-target request is issued per
\* title, and no TargetID is submitted for deletion more than once.
C29_NoRepeatedRequests ==
  /\ \A n, m \in DOMAIN o_log :
        (/\ o_log[n].op = "create_target" /\ o_log[m].op = "create_target"
         /\ o_log[n].title = o_log[m].title) => n = m
  /\ \A n, m \in DOMAIN o_log :
        (o_log[n].op = "delete_target" /\ o_log[m].op = "delete_target") =>
           \A x \in DOMAIN o_log[n].ids, y \in DOMAIN o_log[m].ids :
              o_log[n].ids[x] = o_log[m].ids[y] => (n = m /\ x = y)

----------------------------------------------------------------------------
(* Claims about the gateway                                                *)

\* The response of the call came as far as catch_exception.
ReachedCatchException ==
  /\ g_sent = 1
  /\ ~(low_quota(g_resp.headers) /\ "RateLimit-Reset" \notin DOMAIN g_resp.headers)

IsJson(headers) ==
  "content-type" \in DOMAIN headers /\ headers["content-type"] = "application/json"

\* C12: a response is classified by its status: 400 raises BadRequestError,
\* 401 BadAPIKeyException, 429 TooManyRequests, 500 and 502 BadGatewayError,
\* and any other status different from 200 whose content type is not JSON
\* raises WrongResponseException; the error reaches the caller of api_call.
C12_Classification ==
  ReachedCatchException =>
    /\ g_resp.status = 400 => g_out = Raised("BadRequestError")
    /\ g_resp.status = 401 => g_out = Raised("BadAPIKeyException")
    /\ g_resp.status = 429 => g_out = Raised("TooManyRequests")
    /\ g_resp.status \in {500, 502} => g_out = Raised("BadGatewayError")
    /\ (g_resp.status \notin {200, 400, 401, 429, 500, 502} /\ ~IsJson(g_resp.headers))
          => g_out = Raised("WrongResponseException")

\* C13: a gateway call whose response status is not 2xx, also one outside
\* {400, 401, 429, 500, 502} with a JSON content type, ends with an error
\* and never returns the body.
C13_NonSuccessRaises ==
  (g_sent = 1 /\ g_resp.status \notin 200..299) => g_out.kind = "raise"

C15_RateLimitedRetries ==
  (g_sent >= 1 /\ g_resp.status = 429) => g_sent >= 2

\* C16: once a balance request of get_money_loop has raised
\* BadAPIKeyException (status 401), the loop issues no further request.
C16_AuthFailureIsFatal ==
  [][(m_last = "BadAPIKeyException") => (m_requests' = m_requests)]_vars

\* C27: a cancellation delivered to get_money_loop at the balance request or
\* at the 5-minute sleep ends the loop at once: the task has returned, and
\* once returned it issues no balance request and stays returned.
C27_CancellationStops ==
  /\ [](m_last = "CancelledError" => m_pc = "returned")
  /\ [][m_pc = "returned" => (m_requests' = m_requests /\ m_pc' = "returned")]_vars

\* The loop was cancelled in its sleep after a balance request that returned.
C27_Witness ==
  /\ m_last = "CancelledError"
  /\ m_pc = "returned"
  /\ m_requests = 1
  /\ g_resp.status = 200
  /\ g_out.kind = "return"

\* C28: between two consecutive balance requests of get_money_loop there is
\* one full 5-minute sleep, also when the earlier request ended with an
\* error.
C28_FixedInterval ==
  [][(m_requests' = m_requests + 1 /\ m_requests >= 1) => m_sleeps = <<SleepSeconds>>]_vars

----------------------------------------------------------------------------
(* Claim about SkinBase.get_items                                          *)

\* C30: get_items terminates for every market state: once in its paging loop
\* it eventually returns, also when the market holds fewer than 1000 offers
\* in the range and the remote returns empty pages.
C30_GetItemsTerminates == (sb_pc = "paging") ~> (sb_pc = "done")

----------------------------------------------------------------------------
(* Claim about two passes                                                  *)

\* C6: when a full pass (update_orders, add_to_sell, update_offers) has run
\* and the candidates, the ledger and the remote state change only by what
\* that pass did, the second pass issues no create-target, delete-target,
\* create-offer or edit-offer request (a request that carries no entry at
\* all is not counted).
C6_SecondPassIssuesNoCalls ==
  rc_pass = 2 =>
    /\ o_pc # "idle" =>
          \A k \in DOMAIN o_log :
             /\ o_log[k].op # "create_target"
             /\ o_log[k].op = "delete_target" => o_log[k].ids = <<>>
    /\ rc_stage \in {"update_offers", "end"} => l_call.body = <<>>

====
